---- MODULE Spec2Model ----
(***************************************************************************)
(* A model of the document-to-graph pipeline (knowledge_graph/graph.py)    *)
(* and of the process-wide Neo4j driver holder (utils/neo4j-driver.py).    *)
(*                                                                         *)
(* The module holds one state space and several specifications over it:    *)
(*   SpecDriver      one thread calling get/close, then the atexit hook    *)
(*   SpecDriverConc  several threads calling get_neo4j_driver at once      *)
(*   SpecLoader      load_document over a directory listing                *)
(*   SpecLabel       showGraph over one row, every property combination    *)
(*   SpecViewer      showGraph over several rows of a fixed database       *)
(*   SpecStore       graph.add_graph_documents, run and re-run             *)
(*   SpecPipeline    create_graph, stage by stage                          *)
(* A specification leaves the variables of the other parts unchanged.      *)
(***************************************************************************)
EXTENDS Integers, Sequences, FiniteSets, TLC

\* ------------------------------------------------------------------ bounds
\* calls one thread makes before the shutdown hook (SpecDriver)
MaxCalls == 3
\* threads calling get_neo4j_driver concurrently (SpecDriverConc)
NumThreads == 2
\* entries in the upload directory (SpecLoader)
MaxFiles == 2
\* rows a visualisation query returns (SpecViewer)
MaxRows == 2
\* graph documents in one call of add_graph_documents (SpecStore)
MaxDocs == 2
\* runs of add_graph_documents over the same input (SpecStore)
MaxRepeats == 2
\* calls of create_graph (SpecPipeline)
MaxRuns == 2

\* --------------------------------------------------------------- variables
VARIABLES
  instance,   \* Neo4jDriver._instance: 0 for None, else the index of an object in objs
  objs,       \* the Neo4jDriver objects ever constructed: objs[i].driver is self.driver
              \* (0 for None, else a driver number)
  closes,     \* closes[d]: how many times driver d's close() was invoked
  creators,   \* creators[d]: the module-level call that created driver d
  thr,        \* per thread: position in the current call and its locals
  returned,   \* the values get_neo4j_driver has returned so far (0 for None)
  raised,     \* the exceptions the calls have raised so far
  exited,     \* TRUE once the atexit hook has run
  listing,    \* os.listdir(Uploader): the directory's entries, in listing order
  loadOut,    \* what load_document did: not called yet, returned documents, or raised
  db,         \* the nodes a query can return: node identity (node.id) -> properties
  vQuery,     \* the query showGraph ran and the rows it produced
  vstatus,    \* showGraph: "idle", "shown" (net.show was reached) or "error"
  verr,       \* the exception showGraph raised
  rendered,   \* the networks handed to net.show: <<>> or <<net>>
  store,      \* the graph database: entity nodes, relationships, Document nodes
              \* and MENTIONS links, each in creation order
  lastInput,  \* the graph documents last handed to graph.add_graph_documents
  afterFirst, \* the database as it was after the first run over lastInput
  sameRuns,   \* consecutive runs of add_graph_documents over lastInput
  ppc,        \* create_graph: the stage about to run, or Idle / Done / Failed
  stageLog,   \* the stages this run of create_graph has entered, in order
  raw_document,     \* create_graph's local: what load_document returned
  chunks,           \* create_graph's local: what chunk_documents returned
  graph_documents,  \* graphstore's local: what convert_to_graph_documents returned
  result,     \* what create_graph returned or raised
  runs        \* calls of create_graph so far

driverVars == <<instance, objs, closes, creators, thr, returned, raised, exited>>
loaderVars == <<listing, loadOut>>
viewerVars == <<db, vQuery, vstatus, verr, rendered>>
storeVars == <<store, lastInput, afterFirst, sameRuns>>
pipeVars == <<ppc, stageLog, raw_document, chunks, graph_documents, result, runs>>

vars == <<driverVars, loaderVars, viewerVars, storeVars, pipeVars>>

\* ================================================================= helpers
Range(s) == {s[i] : i \in DOMAIN s}
SeqsUpTo(S, n) == UNION { [1..k -> S] : k \in 0..n }

\* ===================================================== utils/neo4j-driver.py
AllThreads == 1..NumThreads
SingletonError == "This class is a singleton!"

IdleThread == [pc |-> "idle", op |-> "none", self |-> 0, inst |-> 0, calls |-> 0]

InitDriverVars ==
  /\ instance = 0
  /\ objs = <<>>
  /\ closes = <<>>
  /\ creators = <<>>
  /\ thr = [t \in AllThreads |-> IdleThread]
  /\ returned = {}
  /\ raised = {}
  /\ exited = FALSE

\* the thread's call returns (normally or by an exception)
Finish(t) == [thr EXCEPT ![t].pc = "idle", ![t].op = "none", ![t].self = 0,
                         ![t].inst = 0, ![t].calls = @ + 1]

\* a thread enters get_neo4j_driver, close_neo4j_driver, or (at exit) the hook
\* registered by atexit.register(close_neo4j_driver)
Call(t, op) ==
  /\ thr[t].pc = "idle"
  /\ ~exited
  /\ op = "atexit" \/ thr[t].calls < MaxCalls
  /\ thr' = [thr EXCEPT ![t].pc = "get_instance", ![t].op = op]
  /\ UNCHANGED <<instance, objs, closes, creators, returned, raised, exited>>
  /\ UNCHANGED <<loaderVars, viewerVars, storeVars, pipeVars>>

\* get_instance: `if Neo4jDriver._instance is None: Neo4jDriver()`
GetInstanceCheck(t) ==
  /\ thr[t].pc = "get_instance"
  /\ thr' = [thr EXCEPT ![t].pc = IF instance = 0 THEN "init" ELSE "ret_instance"]
  /\ UNCHANGED <<instance, objs, closes, creators, returned, raised, exited>>
  /\ UNCHANGED <<loaderVars, viewerVars, storeVars, pipeVars>>

\* __init__: `if Neo4jDriver._instance is not None: raise Exception(...)`
InitCheck(t) ==
  /\ thr[t].pc = "init"
  /\ IF instance # 0
       THEN /\ raised' = raised \cup {SingletonError}
            /\ thr' = Finish(t)
       ELSE /\ thr' = [thr EXCEPT ![t].pc = "mk_driver"]
            /\ UNCHANGED raised
  /\ UNCHANGED <<instance, objs, closes, creators, returned, exited>>
  /\ UNCHANGED <<loaderVars, viewerVars, storeVars, pipeVars>>

\* __init__: `self.driver = GraphDatabase.driver(...)`
MkDriver(t) ==
  /\ thr[t].pc = "mk_driver"
  /\ objs' = Append(objs, [driver |-> Len(closes) + 1])
  /\ closes' = Append(closes, 0)
  /\ creators' = Append(creators, thr[t].op)
  /\ thr' = [thr EXCEPT ![t].pc = "publish", ![t].self = Len(objs) + 1]
  /\ UNCHANGED <<instance, returned, raised, exited>>
  /\ UNCHANGED <<loaderVars, viewerVars, storeVars, pipeVars>>

\* __init__: `Neo4jDriver._instance = self`
Publish(t) ==
  /\ thr[t].pc = "publish"
  /\ instance' = thr[t].self
  /\ thr' = [thr EXCEPT ![t].pc = "ret_instance"]
  /\ UNCHANGED <<objs, closes, creators, returned, raised, exited>>
  /\ UNCHANGED <<loaderVars, viewerVars, storeVars, pipeVars>>

\* get_instance: `return Neo4jDriver._instance`
RetInstance(t) ==
  /\ thr[t].pc = "ret_instance"
  /\ thr' = [thr EXCEPT ![t].inst = instance,
                        ![t].pc = IF thr[t].op = "get" THEN "get_driver" ELSE "close"]
  /\ UNCHANGED <<instance, objs, closes, creators, returned, raised, exited>>
  /\ UNCHANGED <<loaderVars, viewerVars, storeVars, pipeVars>>

\* get_driver: `return self.driver`
GetDriver(t) ==
  /\ thr[t].pc = "get_driver"
  /\ returned' = returned \cup {objs[thr[t].inst].driver}
  /\ thr' = Finish(t)
  /\ UNCHANGED <<instance, objs, closes, creators, raised, exited>>
  /\ UNCHANGED <<loaderVars, viewerVars, storeVars, pipeVars>>

\* the object's state after close(): `if self.driver: self.driver.close();
\* self.driver = None`
CloseObject(o) == IF o.driver # 0 THEN [o EXCEPT !.driver = 0] ELSE o

\* how often close() invokes the driver's close for this object
CloseCount(o) == IF o.driver # 0 THEN 1 ELSE 0

\* close, the whole method; the atexit hook ends the process
Close(t) ==
  /\ thr[t].pc = "close"
  /\ LET i == thr[t].inst
         d == objs[i].driver
     IN /\ objs' = [objs EXCEPT ![i] = CloseObject(@)]
        /\ closes' = IF d # 0 THEN [closes EXCEPT ![d] = @ + CloseCount(objs[i])]
                              ELSE closes
  /\ exited' = (thr[t].op = "atexit")
  /\ thr' = Finish(t)
  /\ UNCHANGED <<instance, creators, returned, raised>>
  /\ UNCHANGED <<loaderVars, viewerVars, storeVars, pipeVars>>

\* the calls of one thread, in program order, ending with the atexit hook
NextDriver ==
  \/ \E op \in {"get", "close", "atexit"} : Call(1, op)
  \/ GetInstanceCheck(1)
  \/ InitCheck(1)
  \/ MkDriver(1)
  \/ Publish(1)
  \/ RetInstance(1)
  \/ GetDriver(1)
  \/ Close(1)

\* threads calling get_neo4j_driver, interleaved between any two statements
NextDriverConc ==
  \E t \in AllThreads :
    \/ Call(t, "get")
    \/ GetInstanceCheck(t)
    \/ InitCheck(t)
    \/ MkDriver(t)
    \/ Publish(t)
    \/ RetInstance(t)
    \/ GetDriver(t)

\* ============================================== graph.py: load_document
\* A file name is a sequence of characters, so that endswith is computed.
DotPdf == <<".", "p", "d", "f">>
DotDocx == <<".", "d", "o", "c", "x">>

FileNames ==
  { <<"a">> \o DotPdf,                       \* a.pdf
    <<"b">> \o DotDocx,                      \* b.docx
    <<"c", ".", "t", "x", "t">>,             \* c.txt
    <<"d", ".", "P", "D", "F">>,             \* d.PDF
    <<"p", "d", "f">>,                       \* pdf
    <<"e">> \o DotPdf \o <<".", "b", "k">>,   \* e.pdf.bk
    <<"f">> \o DotDocx \o DotPdf,            \* f.docx.pdf
    <<"g", "d", "o", "c", "x">> }            \* gdocx

\* A directory entry: its name, whether a loader can read it (a corrupt file, or
\* a directory, cannot be read), and the pages a PDF loader finds in it.
Entries == [name : FileNames, readable : BOOLEAN, pages : {1, 2}]

\* str.endswith
EndsWith(s, suffix) ==
  /\ Len(s) >= Len(suffix)
  /\ SubSeq(s, Len(s) - Len(suffix) + 1, Len(s)) = suffix

\* the if/elif/else of the loop body: which loader the file gets, or "continue"
LoaderForNoSkip(filename) ==
  IF EndsWith(filename, DotPdf) THEN "PyMuPDFLoader" ELSE "Docx2txtLoader"
LoaderFor(filename) ==
  IF EndsWith(filename, DotPdf) THEN "PyMuPDFLoader"
  ELSE IF EndsWith(filename, DotDocx) THEN "Docx2txtLoader"
  ELSE "continue"

\* loader.load(): PyMuPDFLoader yields one document per page, Docx2txtLoader one
\* document per file
LoaderLoad(loader, e) ==
  IF loader = "PyMuPDFLoader"
    THEN [p \in 1..e.pages |-> [source |-> e.name, loader |-> loader, page |-> p]]
    ELSE <<[source |-> e.name, loader |-> loader, page |-> 0]>>

\* the for loop of load_document from entry i on, documents being the list so far
RECURSIVE LoadFrom(_, _, _)
LoadFrom(entries, i, documents) ==
  IF i > Len(entries) THEN [status |-> "ok", docs |-> documents]
  ELSE LET e == entries[i]
           loader == LoaderFor(e.name)
       IN IF loader = "continue" THEN LoadFrom(entries, i + 1, documents)
          ELSE IF ~e.readable THEN [status |-> "error", docs |-> <<>>]
          ELSE LoadFrom(entries, i + 1, documents \o LoaderLoad(loader, e))

load_document(entries) == LoadFrom(entries, 1, <<>>)

NotLoaded == [status |-> "idle", docs |-> <<>>]

\* listings: the entries of a directory have distinct names
Listings ==
  UNION { { l \in [1..n -> Entries] :
              \A i, j \in 1..n : i # j => l[i].name # l[j].name } : n \in 0..MaxFiles }

IdleLoader == listing = <<>> /\ loadOut = NotLoaded

LoadDocumentCall ==
  /\ loadOut.status = "idle"
  /\ loadOut' = load_document(listing)
  /\ UNCHANGED <<listing, driverVars, viewerVars, storeVars, pipeVars>>

\* ================================================== graph.py: showGraph
\* Property values.  Absent is None: what node.get(key) gives for a missing key,
\* and a null in a row's field.  Zero is the number 0, EmptyStr the string "":
\* both are present and falsy in Python.
Absent == "<None>"
Zero == "<0>"
EmptyStr == ""

Truthy(v) == v \notin {Absent, Zero, EmptyStr}

NodeProps == [name : {Absent, EmptyStr, Zero, "Alice"},
              title : {Absent, EmptyStr, "Acme"},
              id : {Absent, EmptyStr, "1"}]

RelTypes == {"WORKS_AT", "MENTIONS"}

\* two nodes labelled by name and by title, a node that has no `id` property and
\* a node whose only non-empty property is `id`
ExampleDB ==
  ("n1" :> [name |-> "Alice", title |-> Absent, id |-> "1"]) @@
  ("n2" :> [name |-> Absent, title |-> "Acme", id |-> "2"]) @@
  ("n3" :> [name |-> "Bob", title |-> Absent, id |-> Absent]) @@
  ("n4" :> [name |-> EmptyStr, title |-> Absent, id |-> "4"])

\* `node.get("name") or node.get("title") or node["id"]`; node["id"] raises
\* KeyError for a node without that property
ResolveLabelTitleFirst(p) ==
  IF Truthy(p.title) THEN [ok |-> TRUE, v |-> p.title]
  ELSE IF Truthy(p.name) THEN [ok |-> TRUE, v |-> p.name]
  ELSE IF p.id # Absent THEN [ok |-> TRUE, v |-> p.id]
  ELSE [ok |-> FALSE, v |-> "KeyError"]
ResolveLabel(p) ==
  IF Truthy(p.name) THEN [ok |-> TRUE, v |-> p.name]
  ELSE IF Truthy(p.title) THEN [ok |-> TRUE, v |-> p.title]
  ELSE IF p.id # Absent THEN [ok |-> TRUE, v |-> p.id]
  ELSE [ok |-> FALSE, v |-> "KeyError"]

EmptyNet == [nodes |-> <<>>, edges |-> <<>>]

\* net.add_node(node.id, label=..., title=...): a node id the network already
\* holds is not added again; the label kept is the one showGraph passes
AddNodeNoDedup(net, n_id, label, title) ==
  [net EXCEPT !.nodes = Append(@, [id |-> n_id, label |-> label, title |-> title])]
AddNode(net, n_id, label, title) ==
  IF \E i \in DOMAIN net.nodes : net.nodes[i].id = n_id THEN net
  ELSE [net EXCEPT !.nodes = Append(@, [id |-> n_id, label |-> label, title |-> title])]

\* Network.add_edge on a directed network: every call appends an edge
AddEdge(net, source, to, label) ==
  [net EXCEPT !.edges = Append(@, [from |-> source, to |-> to, label |-> label,
                                    title |-> label])]

\* one pass of the loop body over a record
ProcessRow(net, q, nodes, record) ==
  IF "s" \notin q.columns \/ "t" \notin q.columns \/ "r" \notin q.columns
    THEN [ok |-> FALSE, err |-> "KeyError", net |-> net]
  ELSE IF record.s = Absent \/ record.t = Absent \/ record.r = Absent
    THEN [ok |-> FALSE, err |-> "AttributeError", net |-> net]
  ELSE LET source == nodes[record.s]
           target == nodes[record.t]
           source_label == ResolveLabel(source)
           target_label == ResolveLabel(target)
       IN IF ~source_label.ok \/ ~target_label.ok
               \/ source.id = Absent \/ target.id = Absent
            THEN [ok |-> FALSE, err |-> "KeyError", net |-> net]
          ELSE [ok |-> TRUE, err |-> "",
                net |-> AddEdge(AddNode(AddNode(net, record.s, source_label.v, source.id),
                                        record.t, target_label.v, target.id),
                                record.s, record.t, record.r)]

\* `for record in result:` from record i on; an exception ends the loop
RECURSIVE ProcessRows(_, _, _, _)
ProcessRows(net, q, nodes, i) ==
  IF i > Len(q.rows) THEN [ok |-> TRUE, err |-> "", net |-> net]
  ELSE LET r == ProcessRow(net, q, nodes, q.rows[i])
       IN IF r.ok THEN ProcessRows(r.net, q, nodes, i + 1) ELSE r

\* showGraph as a whole: what it raises and what reaches net.show
ShowGraphResultPartial(q, nodes) ==
  IF q.malformed
    THEN [status |-> "error", err |-> "CypherSyntaxError", rendered |-> <<>>]
  ELSE LET r == ProcessRows(EmptyNet, q, nodes, 1)
       IN IF r.ok THEN [status |-> "shown", err |-> "", rendered |-> <<r.net>>]
          ELSE [status |-> "error", err |-> r.err, rendered |-> <<r.net>>]
ShowGraphResult(q, nodes) ==
  IF q.malformed
    THEN [status |-> "error", err |-> "CypherSyntaxError", rendered |-> <<>>]
  ELSE LET r == ProcessRows(EmptyNet, q, nodes, 1)
       IN IF r.ok THEN [status |-> "shown", err |-> "", rendered |-> <<r.net>>]
          ELSE [status |-> "error", err |-> r.err, rendered |-> <<>>]

NoQuery == [malformed |-> FALSE, columns |-> {"s", "r", "t"}, rows |-> <<>>]

IdleViewer ==
  /\ vQuery = NoQuery
  /\ vstatus = "idle"
  /\ verr = ""
  /\ rendered = <<>>

\* Each call of showGraph builds its own network, so one call is followed.
ShowGraph(q) ==
  /\ vstatus = "idle"
  /\ vQuery' = q
  /\ LET res == ShowGraphResult(q, db)
     IN /\ vstatus' = res.status
        /\ verr' = res.err
        /\ rendered' = res.rendered
  /\ UNCHANGED <<db, driverVars, loaderVars, storeVars, pipeVars>>

\* the rows a query can return over the nodes ns
RowsOver(ns, rels) == [s : ns, r : rels, t : ns]

ColumnSets == {{"s", "r", "t"}, {"r", "t"}, {"s", "t"}, {"s", "r"}}

\* a record has no value for a column the query does not return
RowsFor(cs) ==
  [s : IF "s" \in cs THEN DOMAIN ExampleDB \cup {Absent} ELSE {Absent},
   r : IF "r" \in cs THEN RelTypes \cup {Absent} ELSE {Absent},
   t : IF "t" \in cs THEN DOMAIN ExampleDB \cup {Absent} ELSE {Absent}]

ViewerQueries ==
  { [malformed |-> TRUE, columns |-> {"s", "r", "t"}, rows |-> <<>>] } \cup
  UNION { [malformed : {FALSE}, columns : {cs}, rows : SeqsUpTo(RowsFor(cs), MaxRows)] :
          cs \in ColumnSets }

LabelQueries ==
  [malformed : {FALSE}, columns : {{"s", "r", "t"}},
   rows : [1..1 -> RowsOver({"n1", "n2"}, {"WORKS_AT"})]]

\* ================================= graph.py: graphstore, the database write
\* graph.add_graph_documents(graph_documents, baseEntityLabel=True,
\* include_source=True) writes with MERGE: per graph document it merges the
\* Document node of the source chunk, then each node on the base label and its
\* id (adding the node's type as a label, its properties, and a MENTIONS link
\* from the Document), then each relationship on (source, type, target), its
\* end nodes being merged on the base label and their id first.
BaseLabel == "__Entity__"
NoProps == [k \in {} |-> ""]

EmptyStore == [nodes |-> <<>>, rels |-> <<>>, docs |-> <<>>, mentions |-> <<>>]

\* MERGE (n:__Entity__ {id: id}): the node is created only if none has the id
CreateEntity(nodes, id) ==
  Append(nodes, [id |-> id, labels |-> {BaseLabel}, props |-> NoProps])
MergeEntity(nodes, id) ==
  IF \E i \in DOMAIN nodes : nodes[i].id = id THEN nodes
  ELSE Append(nodes, [id |-> id, labels |-> {BaseLabel}, props |-> NoProps])

\* MERGE of a tuple into a list kept in creation order
MergeInto(list, x) == IF x \in Range(list) THEN list ELSE Append(list, x)

\* the node import of one node of a graph document
ImportNode(st, docId, n) ==
  LET merged == MergeEntity(st.nodes, n.id)
  IN [st EXCEPT
        !.nodes = [i \in DOMAIN merged |->
                     IF merged[i].id = n.id
                       THEN [merged[i] EXCEPT !.labels = @ \cup {n.type},
                                              !.props = n.props @@ @]
                       ELSE merged[i]],
        !.mentions = MergeInto(@, [doc |-> docId, id |-> n.id])]

\* the relationship import of one relationship of a graph document
ImportRel(st, r) ==
  [st EXCEPT !.nodes = MergeEntity(MergeEntity(@, r.source), r.target),
             !.rels = MergeInto(@, [source |-> r.source, target |-> r.target,
                                    type |-> r.type])]

RECURSIVE ImportNodes(_, _, _, _)
ImportNodes(st, docId, ns, i) ==
  IF i > Len(ns) THEN st ELSE ImportNodes(ImportNode(st, docId, ns[i]), docId, ns, i + 1)

RECURSIVE ImportRels(_, _, _)
ImportRels(st, rs, i) ==
  IF i > Len(rs) THEN st ELSE ImportRels(ImportRel(st, rs[i]), rs, i + 1)

\* the node query of one graph document (it merges the Document node first)
ImportDocNodes(st, g) ==
  ImportNodes([st EXCEPT !.docs = MergeInto(@, g.source)], g.source, g.nodes, 1)

\* one graph document: the node query, then the relationship query
ImportDocument(st, g) == ImportRels(ImportDocNodes(st, g), g.relationships, 1)

\* add_graph_documents over documents i..Len(gds)
RECURSIVE AddFrom(_, _, _)
AddFrom(st, gds, i) ==
  IF i > Len(gds) THEN st ELSE AddFrom(ImportDocument(st, gds[i]), gds, i + 1)

add_graph_documents(st, gds) == AddFrom(st, gds, 1)

\* What the extraction step can return for a chunk: nodes and relationships
\* the language model names.  Nothing in graphstore checks that a relationship's
\* ends are among the nodes.
Person(id, props) == [id |-> id, type |-> "Person", props |-> props]
GraphShapes ==
  { [nodes |-> <<>>, relationships |-> <<>>],
    [nodes |-> <<Person("alice", NoProps), [id |-> "acme", type |-> "Org", props |-> NoProps]>>,
     relationships |-> <<[source |-> "alice", target |-> "acme", type |-> "WORKS_AT"]>>],
    [nodes |-> <<Person("alice", "age" :> "30")>>,
     relationships |-> <<[source |-> "alice", target |-> "bob", type |-> "KNOWS"]>>],
    [nodes |-> <<[id |-> "acme", type |-> "Person", props |-> "age" :> "31"]>>,
     relationships |-> <<>>] }

GraphDocFor(shape, chunk) ==
  [nodes |-> shape.nodes, relationships |-> shape.relationships, source |-> chunk]

\* a relationship whose source or target is not a node of the same document
Dangling(g) ==
  \E i \in DOMAIN g.relationships :
    \/ g.relationships[i].source \notin {g.nodes[j].id : j \in DOMAIN g.nodes}
    \/ g.relationships[i].target \notin {g.nodes[j].id : j \in DOMAIN g.nodes}

IdleStore ==
  /\ store = EmptyStore
  /\ lastInput = <<>>
  /\ afterFirst = EmptyStore
  /\ sameRuns = 0

\* ---- the store step alone, run over an input and run again over the same
StoreChunks == {"c1", "c2"}
StoreInputs ==
  SeqsUpTo({GraphDocFor(sh, c) : sh \in GraphShapes, c \in StoreChunks}, MaxDocs)

\* databases earlier runs can have left behind
PriorStores ==
  {EmptyStore} \cup
  {add_graph_documents(EmptyStore, <<GraphDocFor(sh, c)>>) :
     sh \in GraphShapes, c \in StoreChunks}

AddGraphDocuments(gds) ==
  /\ sameRuns = 0
  /\ store' = add_graph_documents(store, gds)
  /\ lastInput' = gds
  /\ afterFirst' = store'
  /\ sameRuns' = 1
  /\ UNCHANGED <<driverVars, loaderVars, viewerVars, pipeVars>>

AddGraphDocumentsAgain ==
  /\ sameRuns >= 1
  /\ sameRuns < MaxRepeats
  /\ store' = add_graph_documents(store, lastInput)
  /\ sameRuns' = sameRuns + 1
  /\ UNCHANGED <<lastInput, afterFirst>>
  /\ UNCHANGED <<driverVars, loaderVars, viewerVars, pipeVars>>

\* ============================================== graph.py: chunk_documents
ChunkSize == 1536
ChunkOverlap == 250

\* the tokens of a loaded document's text: a DOCX file longer than one window,
\* a PDF first page of exactly one window, a blank PDF second page
Tokens(doc) == CASE doc.page = 0 -> 1600
                 [] doc.page = 1 -> 1536
                 [] OTHER -> 0

\* TokenTextSplitter: windows of ChunkSize tokens, each starting
\* ChunkSize - ChunkOverlap tokens after the one before, until the text ends
RECURSIVE SplitFrom(_, _)
SplitFrom(n, start) ==
  IF start >= n THEN <<>>
  ELSE IF start + ChunkSize >= n THEN <<start>>
  ELSE <<start>> \o SplitFrom(n, start + ChunkSize - ChunkOverlap)

SplitDocument(doc) ==
  LET starts == SplitFrom(Tokens(doc), 0)
  IN [i \in DOMAIN starts |-> [source |-> doc.source, page |-> doc.page,
                               start |-> starts[i]]]

RECURSIVE ChunkFrom(_, _)
ChunkFrom(docs, i) ==
  IF i > Len(docs) THEN <<>> ELSE SplitDocument(docs[i]) \o ChunkFrom(docs, i + 1)

chunk_documents(raw_documents) == ChunkFrom(raw_documents, 1)

\* ================================================ graph.py: create_graph
Stages == <<"Loading", "Chunking", "Extracting", "Storing">>
Success == "graph is loaded"

\* what a failing stage raises: a ValueError (PyMuPDFLoader on a path that is
\* no file), or an exception that is not one (a corrupt file, an API error, a
\* database error)
ErrKinds == {"ValueError", "RuntimeError"}
CauseOf(stage) ==
  CASE stage = "Loading" -> "cannot read the file"
    [] stage = "Chunking" -> "cannot tokenize"
    [] stage = "Extracting" -> "extraction request failed"
    [] OTHER -> "database unavailable"

\* the order of the calls in create_graph (load_document, chunk_documents,
\* graphstore: convert, then add) and its `return "graph is loaded"`
StageAfterNoStore(stage) ==
  CASE stage = "Loading" -> "Chunking"
    [] stage = "Chunking" -> "Extracting"
    [] OTHER -> "Done"
StageAfter(stage) ==
  CASE stage = "Loading" -> "Chunking"
    [] stage = "Chunking" -> "Extracting"
    [] stage = "Extracting" -> "Storing"
    [] OTHER -> "Done"

NoResult == [status |-> "none", value |-> "", exc |-> <<>>]

\* `except ValueError as e: raise ValueError(f"graph is not loaded: {e}")`;
\* any other exception leaves create_graph as it was raised
ExceptClause(e) ==
  IF e.type = "ValueError"
    THEN [type |-> "ValueError", msg |-> <<"graph is not loaded: ", e.msg[1]>>,
          context |-> <<e>>]
    ELSE e

Raise(stage, kind) ==
  [status |-> "raised", value |-> "",
   exc |-> <<ExceptClause([type |-> kind, msg |-> <<CauseOf(stage)>>, context |-> <<>>])>>]

\* a stage returned: the next call, or the return statement
Proceed(stage) ==
  /\ ppc' = StageAfter(stage)
  /\ result' = IF StageAfter(stage) = "Done"
                 THEN [status |-> "returned", value |-> Success, exc |-> <<>>]
                 ELSE result

\* a stage raised
Abort(stage, kind) ==
  /\ ppc' = "Failed"
  /\ result' = Raise(stage, kind)

\* the upload directory at the time of a run
PdfA == [name |-> <<"a">> \o DotPdf, readable |-> TRUE, pages |-> 2]
DocxB == [name |-> <<"b">> \o DotDocx, readable |-> TRUE, pages |-> 1]
TxtC == [name |-> <<"c", ".", "t", "x", "t">>, readable |-> FALSE, pages |-> 1]
PdfBad == [name |-> <<"f">> \o DotDocx \o DotPdf, readable |-> FALSE, pages |-> 1]
PipelineListings == { <<TxtC>>, <<DocxB>>, <<PdfA, TxtC>>, <<DocxB, PdfBad>> }

IdlePipe ==
  /\ ppc = "Idle"
  /\ stageLog = <<>>
  /\ raw_document = <<>>
  /\ chunks = <<>>
  /\ graph_documents = <<>>
  /\ result = NoResult
  /\ runs = 0

CreateGraph ==
  /\ ppc \in {"Idle", "Done", "Failed"}
  /\ runs < MaxRuns
  /\ runs' = runs + 1
  /\ listing' \in PipelineListings
  /\ ppc' = Stages[1]
  /\ stageLog' = <<>>
  /\ raw_document' = <<>>
  /\ chunks' = <<>>
  /\ graph_documents' = <<>>
  /\ result' = NoResult
  /\ UNCHANGED <<loadOut, store, lastInput, afterFirst, sameRuns>>
  /\ UNCHANGED <<driverVars, viewerVars>>

\* raw_document = load_document()
Loading ==
  /\ ppc = "Loading"
  /\ stageLog' = Append(stageLog, "Loading")
  /\ LET out == load_document(listing)
     IN \/ /\ out.status = "ok"
           /\ raw_document' = out.docs
           /\ Proceed("Loading")
        \/ /\ out.status = "error"
           /\ \E kind \in ErrKinds : Abort("Loading", kind)
           /\ UNCHANGED raw_document
  /\ UNCHANGED <<listing, loadOut, chunks, graph_documents, runs, storeVars>>
  /\ UNCHANGED <<driverVars, viewerVars>>

\* chunks = chunk_documents(raw_document)
Chunking ==
  /\ ppc = "Chunking"
  /\ stageLog' = Append(stageLog, "Chunking")
  /\ \/ /\ chunks' = chunk_documents(raw_document)
        /\ Proceed("Chunking")
     \/ /\ \E kind \in ErrKinds : Abort("Chunking", kind)
        /\ UNCHANGED chunks
  /\ UNCHANGED <<listing, loadOut, raw_document, graph_documents, runs, storeVars>>
  /\ UNCHANGED <<driverVars, viewerVars>>

\* graphstore: graph_documents = llm_transformer.convert_to_graph_documents(documents),
\* one graph document per chunk, its content the model's choice
Extracting ==
  /\ ppc = "Extracting"
  /\ stageLog' = Append(stageLog, "Extracting")
  /\ \/ /\ \E f \in [DOMAIN chunks -> GraphShapes] :
             graph_documents' = [i \in DOMAIN chunks |-> GraphDocFor(f[i], chunks[i])]
        /\ Proceed("Extracting")
     \/ /\ \E kind \in ErrKinds : Abort("Extracting", kind)
        /\ UNCHANGED graph_documents
  /\ UNCHANGED <<listing, loadOut, raw_document, chunks, runs, storeVars>>
  /\ UNCHANGED <<driverVars, viewerVars>>

\* The databases a failing add_graph_documents can leave: every query commits
\* on its own, so the documents before the failing one are written, and of the
\* failing one the nodes are written if its relationship query is what failed.
PartialStores(st, gds) ==
  {st} \cup
  UNION { { AddFrom(st, SubSeq(gds, 1, j - 1), 1),
            ImportDocNodes(AddFrom(st, SubSeq(gds, 1, j - 1), 1), gds[j]) } :
          j \in DOMAIN gds }

\* graphstore: graph.add_graph_documents(graph_documents, ...)
Storing ==
  /\ ppc = "Storing"
  /\ stageLog' = Append(stageLog, "Storing")
  /\ \/ /\ store' = add_graph_documents(store, graph_documents)
        /\ Proceed("Storing")
     \/ /\ store' \in PartialStores(store, graph_documents)
        /\ \E kind \in ErrKinds : Abort("Storing", kind)
  /\ UNCHANGED <<listing, loadOut, raw_document, chunks, graph_documents, runs>>
  /\ UNCHANGED <<lastInput, afterFirst, sameRuns>>
  /\ UNCHANGED <<driverVars, viewerVars>>

\* ============================================================ specifications
InitDriver ==
  /\ InitDriverVars /\ IdleLoader /\ IdleViewer /\ db = ExampleDB /\ IdleStore /\ IdlePipe
SpecDriver == InitDriver /\ [][NextDriver]_vars
SpecDriverConc == InitDriver /\ [][NextDriverConc]_vars

InitLoader ==
  /\ InitDriverVars /\ IdleViewer /\ db = ExampleDB /\ IdleStore /\ IdlePipe
  /\ listing \in Listings
  /\ loadOut = NotLoaded
NextLoader == LoadDocumentCall
SpecLoader == InitLoader /\ [][NextLoader]_vars

InitViewer ==
  /\ InitDriverVars /\ IdleLoader /\ IdleViewer /\ db = ExampleDB /\ IdleStore /\ IdlePipe
NextViewer == vstatus = "idle" /\ \E q \in ViewerQueries : ShowGraph(q)
SpecViewer == InitViewer /\ [][NextViewer]_vars

InitLabel ==
  /\ InitDriverVars /\ IdleLoader /\ IdleViewer /\ IdleStore /\ IdlePipe
  /\ db \in [{"n1", "n2"} -> NodeProps]
NextLabel == vstatus = "idle" /\ \E q \in LabelQueries : ShowGraph(q)
SpecLabel == InitLabel /\ [][NextLabel]_vars

InitStore ==
  /\ InitDriverVars /\ IdleLoader /\ IdleViewer /\ db = ExampleDB /\ IdlePipe
  /\ store \in PriorStores
  /\ lastInput = <<>>
  /\ afterFirst = EmptyStore
  /\ sameRuns = 0
NextStore ==
  \/ sameRuns = 0 /\ \E gds \in StoreInputs : AddGraphDocuments(gds)
  \/ AddGraphDocumentsAgain
SpecStore == InitStore /\ [][NextStore]_vars

InitPipeline == InitViewer
NextPipeline ==
  \/ CreateGraph
  \/ Loading
  \/ Chunking
  \/ Extracting
  \/ Storing
SpecPipeline == InitPipeline /\ [][NextPipeline]_vars

\* ==================================================================== claims

\* ---- create_graph (SpecPipeline)
IsPrefix(s, t) == Len(s) <= Len(t) /\ \A i \in DOMAIN s : s[i] = t[i]
Last(s) == s[Len(s)]

\* C1: in every run of create_graph the stages are entered in the order
\* Loading, Chunking, Extracting, Storing, each at most once; a stage is entered
\* only with the whole output of the one before it (every loaded document
\* chunked, one graph document per chunk); and "graph is loaded" is returned
\* only after all four stages ran and every graph document is in the database.
C1_StagesInOrder ==
  /\ IsPrefix(stageLog, Stages)
  /\ ppc \in Range(Stages) => IsPrefix(stageLog \o <<ppc>>, Stages)
  /\ Len(stageLog) >= 2 /\ ppc # "Failed" => chunks = chunk_documents(raw_document)
  /\ Len(stageLog) >= 3 /\ ppc # "Failed" =>
       /\ Len(graph_documents) = Len(chunks)
       /\ \A i \in DOMAIN chunks : graph_documents[i].source = chunks[i]
  /\ result.status = "returned" =>
       /\ result.value = Success
       /\ ppc = "Done"
       /\ stageLog = Stages
       /\ \A i \in DOMAIN graph_documents :
            graph_documents[i].source \in Range(store.docs)

\* a run that returned success after storing the graph documents of two chunks
C1_Witness ==
  /\ ppc = "Done"
  /\ result.status = "returned"
  /\ stageLog = Stages
  /\ Len(graph_documents) = 2
  /\ Len(store.nodes) >= 2

\* C2: whenever a stage fails, whatever it raised, create_graph ends with an
\* error the orchestrator built around the stage's error, carrying the failing
\* stage and the cause; the stage's own error never leaves create_graph as it
\* was raised.
C2_EveryFailureWrapped ==
  ppc = "Failed" =>
    /\ result.status = "raised"
    /\ LET e == result.exc[1]
       IN /\ Len(e.context) = 1
          /\ e.context[1].msg = <<CauseOf(Last(stageLog))>>
          /\ "stage" \in DOMAIN e
          /\ e.stage = Last(stageLog)

\* C4: a graph document with a relationship whose source or target is not among
\* its nodes makes the run fail, and nothing of that document reaches the
\* database.
C4_DanglingRejected ==
  \A i \in DOMAIN graph_documents :
    Dangling(graph_documents[i]) =>
      /\ ppc # "Done"
      /\ ppc = "Failed" => graph_documents[i].source \notin Range(store.docs)

\* ---- graph.add_graph_documents (SpecStore)
LabelledIdents(st) ==
  UNION { { <<l, st.nodes[i].id>> : l \in st.nodes[i].labels } : i \in DOMAIN st.nodes }
RelIdents(st) == { <<st.rels[i].source, st.rels[i].target, st.rels[i].type>> :
                   i \in DOMAIN st.rels }

\* C5: after add_graph_documents has run twice (or more) over the same graph
\* documents, the database holds the same extracted nodes, identified by
\* (label, id), and the same relationships between them, identified by
\* (source id, target id, type), in the same numbers, as after the first of
\* these runs.
C5_StoreIdempotent ==
  sameRuns >= 2 =>
    /\ LabelledIdents(store) = LabelledIdents(afterFirst)
    /\ Len(store.nodes) = Len(afterFirst.nodes)
    /\ RelIdents(store) = RelIdents(afterFirst)
    /\ Len(store.rels) = Len(afterFirst.rels)

\* a second run over two graph documents with nodes and a relationship
C5_Witness ==
  /\ sameRuns = 2
  /\ Len(lastInput) = 2
  /\ \E i \in DOMAIN lastInput : Len(lastInput[i].relationships) >= 1
  /\ Len(store.nodes) >= 2
  /\ Len(store.rels) >= 1

\* ---- showGraph (SpecLabel, SpecViewer)
RowNodes(q) == UNION { {q.rows[i].s, q.rows[i].t} : i \in DOMAIN q.rows }
LabelShown(net, n) == (CHOOSE x \in Range(net.nodes) : x.id = n).label

\* C6, as stated: every node of a row that has at least one of name, title and
\* id gets a label, which is name if present and not empty, else title if
\* present and not empty, else id.
NonEmpty(v) == v # Absent /\ v # EmptyStr
C6_LabelForAnyOfThree ==
  \A n \in RowNodes(vQuery) :
    LET p == db[n]
    IN (p.name # Absent \/ p.title # Absent \/ p.id # Absent) =>
         /\ ResolveLabel(p).ok
         /\ ResolveLabel(p).v = IF NonEmpty(p.name) THEN p.name
                                ELSE IF NonEmpty(p.title) THEN p.title
                                ELSE p.id

\* C6, amended: a row whose two nodes both have an `id` property is shown, and
\* the label of each of its nodes is name if that is truthy (present, not "",
\* not 0), else title if that is truthy, else the id property; a row with a
\* node that has no `id` property makes showGraph raise.
C6_LabelFallback ==
  vstatus # "idle" =>
    LET ns == RowNodes(vQuery)
    IN IF \A n \in ns : db[n].id # Absent
         THEN /\ vstatus = "shown"
              /\ \A n \in ns :
                   LET p == db[n]
                       label == LabelShown(rendered[1], n)
                   IN /\ Truthy(p.name) => label = p.name
                      /\ ~Truthy(p.name) /\ Truthy(p.title) => label = p.title
                      /\ ~Truthy(p.name) /\ ~Truthy(p.title) => label = p.id
         ELSE vstatus = "error" /\ verr = "KeyError"

\* a shown row with a node labelled by its title (its name is empty) and a node
\* labelled by its id property
C6_Witness ==
  /\ vstatus = "shown"
  /\ \E n \in RowNodes(vQuery) :
       db[n].name = EmptyStr /\ db[n].title = "Acme" /\ LabelShown(rendered[1], n) = "Acme"
  /\ \E n \in RowNodes(vQuery) :
       db[n].name = Zero /\ db[n].title = Absent /\ LabelShown(rendered[1], n) = "1"

\* the nodes of the rows in the order the loop meets them: s, then t, row by row
Seen(rows) == [k \in 1..(2 * Len(rows)) |->
                 IF k % 2 = 1 THEN rows[(k + 1) \div 2].s ELSE rows[k \div 2].t]
FirstPos(s, x) == CHOOSE k \in DOMAIN s : s[k] = x /\ \A m \in 1..(k - 1) : s[m] # x

\* C7: when showGraph shows a network, its node list holds every node of the
\* rows exactly once, in the order the nodes are first seen, and its edge list
\* holds one edge per row, in row order, from the row's s to its t, labelled
\* with the type of its r.
C7_NodesOnceEdgesPerRow ==
  vstatus = "shown" =>
    LET net == rendered[1]
        rows == vQuery.rows
        seen == Seen(rows)
    IN /\ \A i, j \in DOMAIN net.nodes : net.nodes[i].id = net.nodes[j].id => i = j
       /\ {net.nodes[i].id : i \in DOMAIN net.nodes} = Range(seen)
       /\ \A i, j \in DOMAIN net.nodes :
            i < j => FirstPos(seen, net.nodes[i].id) < FirstPos(seen, net.nodes[j].id)
       /\ Len(net.edges) = Len(rows)
       /\ \A i \in DOMAIN rows :
            /\ net.edges[i].from = rows[i].s
            /\ net.edges[i].to = rows[i].t
            /\ net.edges[i].label = rows[i].r

\* two rows sharing a node, the nodes first seen in the order n4, n1, n2
C7_Witness ==
  /\ vstatus = "shown"
  /\ Len(vQuery.rows) = 2
  /\ vQuery.rows[1].t = vQuery.rows[2].s
  /\ vQuery.rows[1].r # vQuery.rows[2].r
  /\ [i \in DOMAIN rendered[1].nodes |-> rendered[1].nodes[i].id] = <<"n4", "n1", "n2">>
  /\ Len(rendered[1].edges) = 2

\* a row that lacks a field: a column missing from the result, a null s, r or
\* t, or a node without an `id` property
RowLacks(q, nodes, row) ==
  \/ q.columns # {"s", "r", "t"}
  \/ row.s = Absent
  \/ row.t = Absent
  \/ row.r = Absent
  \/ nodes[row.s].id = Absent
  \/ nodes[row.t].id = Absent

\* C8: if the query is malformed or a row lacks a field, showGraph raises and
\* nothing is handed to net.show, whatever the rows before the failing one
\* were; and whenever showGraph raises, nothing is shown.
C8_AllOrNothing ==
  vstatus # "idle" =>
    /\ (vQuery.malformed \/ \E i \in DOMAIN vQuery.rows : RowLacks(vQuery, db, vQuery.rows[i]))
         => vstatus = "error" /\ verr # "" /\ rendered = <<>>
    /\ vstatus = "error" => rendered = <<>>

\* a good first row followed by a row with a node that has no `id` property
C8_Witness ==
  /\ vstatus = "error"
  /\ Len(vQuery.rows) = 2
  /\ ~RowLacks(vQuery, db, vQuery.rows[1])
  /\ vQuery.rows[2].s # Absent /\ vQuery.rows[2].t # Absent /\ vQuery.rows[2].r # Absent
  /\ RowLacks(vQuery, db, vQuery.rows[2])
  /\ rendered = <<>>

\* ---- load_document (SpecLoader)
Supported(e) == EndsWith(e.name, DotPdf) \/ EndsWith(e.name, DotDocx)
Position(l, name) == CHOOSE i \in DOMAIN l : l[i].name = name

\* C9: load_document raises only if an entry ending in .pdf or .docx cannot be
\* read (no other entry makes it raise), and otherwise returns documents
\* exactly for the entries ending in .pdf or .docx: a .pdf entry's pages from
\* the PDF loader, one document per .docx entry from the DOCX loader, in
\* listing order.
C9_LoaderDispatch ==
  loadOut.status # "idle" =>
    LET wanted == SelectSeq(listing, Supported)
        docs == loadOut.docs
    IN /\ loadOut.status = "ok" <=> \A i \in DOMAIN wanted : wanted[i].readable
       /\ loadOut.status = "ok" =>
            /\ {docs[i].source : i \in DOMAIN docs} = {wanted[i].name : i \in DOMAIN wanted}
            /\ \A i, j \in DOMAIN docs :
                 i < j => Position(listing, docs[i].source) <= Position(listing, docs[j].source)
            /\ \A i \in DOMAIN docs :
                 docs[i].loader = IF EndsWith(docs[i].source, DotPdf)
                                    THEN "PyMuPDFLoader" ELSE "Docx2txtLoader"
            /\ \A i \in DOMAIN wanted :
                 Cardinality({j \in DOMAIN docs : docs[j].source = wanted[i].name})
                   = IF EndsWith(wanted[i].name, DotPdf) THEN wanted[i].pages ELSE 1

\* a listing with a .docx entry and an unreadable entry of another extension
C9_Witness ==
  /\ loadOut.status = "ok"
  /\ Len(listing) = 2
  /\ \E i \in DOMAIN listing : ~Supported(listing[i]) /\ ~listing[i].readable
  /\ \E i \in DOMAIN listing : EndsWith(listing[i].name, DotDocx)
  /\ Len(loadOut.docs) = 1

\* ---- the driver holder (SpecDriver, SpecDriverConc)
\* C3: over the calls of one thread, ending with the atexit hook, at most one
\* driver is created and only by get_neo4j_driver, never by a release call; no
\* driver is closed more than once; and once the hook has run, every driver
\* created has been closed exactly once.
C3_CreatedOnlyByGet ==
  /\ Len(objs) <= 1
  /\ \A d \in DOMAIN creators : creators[d] = "get"
  /\ \A d \in DOMAIN closes : closes[d] <= 1
  /\ exited => \A d \in DOMAIN closes : closes[d] = 1

\* C10: however the threads calling get_neo4j_driver interleave, one driver is
\* created, every call returns that driver, and no call raises
\* "This class is a singleton!".
C10_OneDriverUnderRaces ==
  /\ Len(objs) <= 1
  /\ Cardinality(returned) <= 1
  /\ SingletonError \notin raised

====
